---- MODULE Spec2Model ----
(***************************************************************************)
(* ClientError (client/src/errors.rs): a closed enum of eight variants,    *)
(* six of which wrap a lower-level error.  The derive on the enum supplies *)
(* the message formatting (one template per variant), the conversions from *)
(* the wrapped error types, and the access to the wrapped cause.           *)
(*                                                                         *)
(* A text is a sequence of one-character strings, so that messages can be  *)
(* compared character by character.  An optional value is a sequence of    *)
(* length at most one: <<>> is None and <<x>> is Some(x).                  *)
(*                                                                         *)
(* The model follows two call sites, a background task and the main flow   *)
(* that joins it.  At a site a lower-level operation fails with a cause,   *)
(* the cause is turned into a ClientError, the error is formatted and      *)
(* inspected, handed over by value, and finally consumed.                  *)
(***************************************************************************)
EXTENDS Naturals, Sequences, FiniteSets

VARIABLES
    pend,    \* per site: the cause of a failed lower-level operation, not yet wrapped
    err,     \* per site: the ClientError the site owns
    built,   \* per site: how, where and from what the owned error was constructed (history)
    msg,     \* per site: the result of the last to_string() of the owned error
    src,     \* per site: the result of the last source() of the owned error
    logged,  \* what the top-level handler has written
    exited   \* whether the top-level handler has ended the process

vars == <<pend, err, built, msg, src, logged, exited>>

----------------------------------------------------------------------------
(* Bounds and input sets *)

\* Longest free text of a cause.
MaxLen == 1

Sites == {"task", "main"}

\* The site an error is handed to: the main flow joins the task.
Caller(s) == IF s = "task" THEN "main" ELSE "none"

Alphabet == {"x"}

None == <<>>

Some(x) == <<x>>

----------------------------------------------------------------------------
(* The enum *)

WrappingVariants ==
    {"ConfigurationError", "IO", "Yaml", "Webserver", "TokioThread", "Websocket"}

UnitVariants == {"Unknown", "Token"}

Variants == WrappingVariants \cup UnitVariants

\* The type of the field of each wrapping variant.
FieldType(v) ==
    CASE v = "ConfigurationError" -> "config::ConfigError"
      [] v = "IO"                 -> "io::Error"
      [] v = "Yaml"               -> "serde_yaml::Error"
      [] v = "Webserver"          -> "hyper::Error"
      [] v = "TokioThread"        -> "tokio::task::JoinError"
      [] v = "Websocket"          -> "tungstenite::Error"

CauseTypes == {FieldType(v) : v \in WrappingVariants}

\* The placeholder {0} of a template.
Hole == "{0}"

\* "unable to load configuration {0}"
ConfigurationErrorFmt ==
    <<"u", "n", "a", "b", "l", "e", " ", "t", "o", " ", "l", "o", "a", "d", " ", "c", "o", "n", "f", "i", "g", "u", "r", "a", "t", "i", "o", "n", " ", Hole>>

\* "general IO error: {0}" without its colon
IOFmtNoColon ==
    <<"g", "e", "n", "e", "r", "a", "l", " ", "I", "O", " ", "e", "r", "r", "o", "r", " ", Hole>>

\* "general IO error: {0}"
IOFmt ==
    <<"g", "e", "n", "e", "r", "a", "l", " ", "I", "O", " ", "e", "r", "r", "o", "r", ":", " ", Hole>>

\* "yaml parse error: {0}"
YamlFmt ==
    <<"y", "a", "m", "l", " ", "p", "a", "r", "s", "e", " ", "e", "r", "r", "o", "r", ":", " ", Hole>>

\* "webserver error: {0}"
WebserverFmt ==
    <<"w", "e", "b", "s", "e", "r", "v", "e", "r", " ", "e", "r", "r", "o", "r", ":", " ", Hole>>

\* "unknown client error" with a placeholder it does not have
UnknownFmtWithHole ==
    <<"u", "n", "k", "n", "o", "w", "n", " ", "c", "l", "i", "e", "n", "t", " ", "e", "r", "r", "o", "r", ":", " ", Hole>>

\* "unknown client error"
UnknownFmt ==
    <<"u", "n", "k", "n", "o", "w", "n", " ", "c", "l", "i", "e", "n", "t", " ", "e", "r", "r", "o", "r">>

\* "tokio thread error: {0}"
TokioThreadFmt ==
    <<"t", "o", "k", "i", "o", " ", "t", "h", "r", "e", "a", "d", " ", "e", "r", "r", "o", "r", ":", " ", Hole>>

\* the text of Unknown, pasted onto Token
TokenFmtPasted ==
    <<"u", "n", "k", "n", "o", "w", "n", " ", "c", "l", "i", "e", "n", "t", " ", "e", "r", "r", "o", "r">>

\* "auth token not present"
TokenFmt ==
    <<"a", "u", "t", "h", " ", "t", "o", "k", "e", "n", " ", "n", "o", "t", " ", "p", "r", "e", "s", "e", "n", "t">>

\* "websocket error {0}" written like its neighbours, with a colon
WebsocketFmtColon ==
    <<"w", "e", "b", "s", "o", "c", "k", "e", "t", " ", "e", "r", "r", "o", "r", ":", " ", Hole>>

\* "websocket error {0}"
WebsocketFmt ==
    <<"w", "e", "b", "s", "o", "c", "k", "e", "t", " ", "e", "r", "r", "o", "r", " ", Hole>>

\* The template attached to each variant.
Template(v) ==
    CASE v = "ConfigurationError" -> ConfigurationErrorFmt
      [] v = "IO"                 -> IOFmt
      [] v = "Yaml"               -> YamlFmt
      [] v = "Webserver"          -> WebserverFmt
      [] v = "Unknown"            -> UnknownFmt
      [] v = "TokioThread"        -> TokioThreadFmt
      [] v = "Token"              -> TokenFmt
      [] v = "Websocket"          -> WebsocketFmt

\* A template written out: its literal characters, with every placeholder
\* replaced by the text of the argument.
RECURSIVE Render(_, _)
Render(tpl, arg) ==
    IF tpl = <<>> THEN <<>>
    ELSE IF Head(tpl) = Hole THEN arg \o Render(Tail(tpl), arg)
    ELSE <<Head(tpl)>> \o Render(Tail(tpl), arg)

\* A cause is an error of one of the wrapped types; all that is seen of it
\* here is its type and the text its own formatting produces.
CauseDisplay(c) == c.text

\* Display for ClientError.
Display(e) ==
    Render(Template(e.variant),
           IF e.cause = None THEN <<>> ELSE CauseDisplay(e.cause[1]))

\* ClientError::V(c), for a wrapping variant V.
Wrap(v, c) == [variant |-> v, cause |-> Some(c)]

\* ClientError::Unknown and ClientError::Token.
Unit(v) == [variant |-> v, cause |-> None]

\* A conversion that sends the WebSocket error to the HTTP variant.
FromVariantSwapped(t) ==
    CASE t = "config::ConfigError"    -> "ConfigurationError"
      [] t = "io::Error"              -> "IO"
      [] t = "serde_yaml::Error"      -> "Yaml"
      [] t = "hyper::Error"           -> "Webserver"
      [] t = "tokio::task::JoinError" -> "TokioThread"
      [] t = "tungstenite::Error"     -> "Webserver"

\* The variant each #[from] conversion produces, by the type of the cause.
FromVariant(t) ==
    CASE t = "config::ConfigError"    -> "ConfigurationError"
      [] t = "io::Error"              -> "IO"
      [] t = "serde_yaml::Error"      -> "Yaml"
      [] t = "hyper::Error"           -> "Webserver"
      [] t = "tokio::task::JoinError" -> "TokioThread"
      [] t = "tungstenite::Error"     -> "Websocket"

\* A conversion that keeps the type of the cause and loses its text.
FromLossy(c) == Wrap(FromVariant(c.type), [type |-> c.type, text |-> <<>>])

\* From<cause type> for ClientError.
From(c) == Wrap(FromVariant(c.type), c)

\* A cause access that forgets the Websocket variant.
SourceForgetful(e) ==
    CASE e.variant = "ConfigurationError" -> e.cause
      [] e.variant = "IO"                 -> e.cause
      [] e.variant = "Yaml"               -> e.cause
      [] e.variant = "Webserver"          -> e.cause
      [] e.variant = "Unknown"            -> None
      [] e.variant = "TokioThread"        -> e.cause
      [] e.variant = "Token"              -> None
      [] e.variant = "Websocket"          -> None

\* Error::source for ClientError: the #[from] field, where there is one.
Source(e) ==
    CASE e.variant = "ConfigurationError" -> e.cause
      [] e.variant = "IO"                 -> e.cause
      [] e.variant = "Yaml"               -> e.cause
      [] e.variant = "Webserver"          -> e.cause
      [] e.variant = "Unknown"            -> None
      [] e.variant = "TokioThread"        -> e.cause
      [] e.variant = "Token"              -> None
      [] e.variant = "Websocket"          -> e.cause

----------------------------------------------------------------------------
(* The causes the collaborators can produce *)

RECURSIVE TextsUpTo(_)
TextsUpTo(n) ==
    IF n = 0 THEN {<<>>}
    ELSE LET shorter == TextsUpTo(n - 1)
         IN  shorter \cup {Append(t, a) : t \in shorter, a \in Alphabet}

\* Texts that read like the message of a ClientError with an empty cause.
Imitations == {Render(Template(v), <<>>) : v \in Variants}

Texts == TextsUpTo(MaxLen) \cup Imitations

Causes == [type : CauseTypes, text : Texts]

----------------------------------------------------------------------------
(* The life of an error *)

Init ==
    /\ pend = [s \in Sites |-> None]
    /\ err = [s \in Sites |-> None]
    /\ built = [s \in Sites |-> None]
    /\ msg = [s \in Sites |-> None]
    /\ src = [s \in Sites |-> None]
    /\ logged = None
    /\ exited = FALSE

Idle(s) == pend[s] = None /\ err[s] = None

\* A lower-level operation fails at site s with cause c.
Fail(s, c) ==
    /\ ~exited
    /\ Idle(s)
    /\ pend' = [pend EXCEPT ![s] = Some(c)]
    /\ UNCHANGED <<err, built, msg, src, logged, exited>>

\* The pending cause is converted by From (the ? operator).
Convert(s) ==
    /\ ~exited
    /\ pend[s] # None
    /\ err' = [err EXCEPT ![s] = Some(From(pend[s][1]))]
    /\ built' = [built EXCEPT ![s] =
                    Some([how |-> "from", at |-> s, variant |-> FromVariant(pend[s][1].type),
                          cause |-> pend[s]])]
    /\ pend' = [pend EXCEPT ![s] = None]
    /\ UNCHANGED <<msg, src, logged, exited>>

\* The pending cause is wrapped by naming the variant: ClientError::V(c).
Explicit(s, v) ==
    /\ ~exited
    /\ pend[s] # None
    /\ v \in WrappingVariants
    /\ FieldType(v) = pend[s][1].type
    /\ err' = [err EXCEPT ![s] = Some(Wrap(v, pend[s][1]))]
    /\ built' = [built EXCEPT ![s] =
                    Some([how |-> "explicit", at |-> s, variant |-> v, cause |-> pend[s]])]
    /\ pend' = [pend EXCEPT ![s] = None]
    /\ UNCHANGED <<msg, src, logged, exited>>

\* A failure with no cause is detected: ClientError::Unknown, ClientError::Token.
Detect(s, v) ==
    /\ ~exited
    /\ Idle(s)
    /\ v \in UnitVariants
    /\ err' = [err EXCEPT ![s] = Some(Unit(v))]
    /\ built' = [built EXCEPT ![s] =
                    Some([how |-> "unit", at |-> s, variant |-> v, cause |-> None])]
    /\ UNCHANGED <<pend, msg, src, logged, exited>>

\* A formatting that also ends the process.
FormatAndExit(s) ==
    /\ ~exited
    /\ err[s] # None
    /\ msg' = [msg EXCEPT ![s] = Some(Display(err[s][1]))]
    /\ exited' = TRUE
    /\ UNCHANGED <<pend, err, built, src, logged>>

\* to_string() of the owned error.
Format(s) ==
    /\ ~exited
    /\ err[s] # None
    /\ msg' = [msg EXCEPT ![s] = Some(Display(err[s][1]))]
    /\ UNCHANGED <<pend, err, built, src, logged, exited>>

\* A cause access that takes the cause out and leaves the catch-all variant.
InspectTaking(s) ==
    /\ ~exited
    /\ err[s] # None
    /\ src' = [src EXCEPT ![s] = Some(Source(err[s][1]))]
    /\ err' = [err EXCEPT ![s] = Some(Unit("Unknown"))]
    /\ UNCHANGED <<pend, built, msg, logged, exited>>

\* source() of the owned error.
Inspect(s) ==
    /\ ~exited
    /\ err[s] # None
    /\ src' = [src EXCEPT ![s] = Some(Source(err[s][1]))]
    /\ UNCHANGED <<pend, err, built, msg, logged, exited>>

\* The error is handed over by value to the caller: returned up the call
\* chain, across the join of the task.
Move(s, t) ==
    /\ ~exited
    /\ t = Caller(s)
    /\ err[s] # None
    /\ Idle(t)
    /\ err' = [err EXCEPT ![s] = None, ![t] = err[s]]
    /\ built' = [built EXCEPT ![s] = None, ![t] = built[s]]
    /\ msg' = [msg EXCEPT ![s] = None]
    /\ src' = [src EXCEPT ![s] = None]
    /\ UNCHANGED <<pend, logged, exited>>

\* A caller consumes the error and carries on.
Drop(s) ==
    /\ ~exited
    /\ err[s] # None
    /\ err' = [err EXCEPT ![s] = None]
    /\ built' = [built EXCEPT ![s] = None]
    /\ msg' = [msg EXCEPT ![s] = None]
    /\ src' = [src EXCEPT ![s] = None]
    /\ UNCHANGED <<pend, logged, exited>>

\* The top-level handler consumes the error: it writes the message and ends
\* the process.
Handle ==
    /\ ~exited
    /\ err["main"] # None
    /\ logged' = Some(Display(err["main"][1]))
    /\ exited' = TRUE
    /\ err' = [err EXCEPT !["main"] = None]
    /\ built' = [built EXCEPT !["main"] = None]
    /\ msg' = [msg EXCEPT !["main"] = None]
    /\ src' = [src EXCEPT !["main"] = None]
    /\ UNCHANGED pend

Next ==
    \/ \E s \in Sites, c \in Causes : Fail(s, c)
    \/ \E s \in Sites : Convert(s)
    \/ \E s \in Sites, v \in WrappingVariants : Explicit(s, v)
    \/ \E s \in Sites, v \in UnitVariants : Detect(s, v)
    \/ \E s \in Sites : Format(s)
    \/ \E s \in Sites : Inspect(s)
    \/ \E s, t \in Sites : Move(s, t)
    \/ \E s \in Sites : Drop(s)
    \/ Handle

Spec == Init /\ [][Next]_vars

----------------------------------------------------------------------------
(* The texts the statements below name, written out *)

Wrapped(s) == err[s] # None /\ err[s][1].variant \in WrappingVariants

Holds(s, v) == err[s] # None /\ err[s][1].variant = v

\* The text of the cause the error at site s wraps.
CauseText(s) == err[s][1].cause[1].text

\* The leading text of each wrapping variant's message.
Leading(v) ==
    CASE v = "ConfigurationError" ->
           <<"u", "n", "a", "b", "l", "e", " ", "t", "o", " ", "l", "o", "a", "d", " ", "c", "o", "n", "f", "i", "g", "u", "r", "a", "t", "i", "o", "n", " ">>
      [] v = "IO" ->
           <<"g", "e", "n", "e", "r", "a", "l", " ", "I", "O", " ", "e", "r", "r", "o", "r", ":", " ">>
      [] v = "Yaml" ->
           <<"y", "a", "m", "l", " ", "p", "a", "r", "s", "e", " ", "e", "r", "r", "o", "r", ":", " ">>
      [] v = "Webserver" ->
           <<"w", "e", "b", "s", "e", "r", "v", "e", "r", " ", "e", "r", "r", "o", "r", ":", " ">>
      [] v = "TokioThread" ->
           <<"t", "o", "k", "i", "o", " ", "t", "h", "r", "e", "a", "d", " ", "e", "r", "r", "o", "r", ":", " ">>
      [] v = "Websocket" ->
           <<"w", "e", "b", "s", "o", "c", "k", "e", "t", " ", "e", "r", "r", "o", "r", " ">>

\* The category phrase of each wrapping variant, without punctuation.
Category(v) ==
    CASE v = "ConfigurationError" ->
           <<"u", "n", "a", "b", "l", "e", " ", "t", "o", " ", "l", "o", "a", "d", " ", "c", "o", "n", "f", "i", "g", "u", "r", "a", "t", "i", "o", "n">>
      [] v = "IO" ->
           <<"g", "e", "n", "e", "r", "a", "l", " ", "I", "O", " ", "e", "r", "r", "o", "r">>
      [] v = "Yaml" ->
           <<"y", "a", "m", "l", " ", "p", "a", "r", "s", "e", " ", "e", "r", "r", "o", "r">>
      [] v = "Webserver" ->
           <<"w", "e", "b", "s", "e", "r", "v", "e", "r", " ", "e", "r", "r", "o", "r">>
      [] v = "TokioThread" ->
           <<"t", "o", "k", "i", "o", " ", "t", "h", "r", "e", "a", "d", " ", "e", "r", "r", "o", "r">>
      [] v = "Websocket" ->
           <<"w", "e", "b", "s", "o", "c", "k", "e", "t", " ", "e", "r", "r", "o", "r">>

UnknownText ==
    <<"u", "n", "k", "n", "o", "w", "n", " ", "c", "l", "i", "e", "n", "t", " ", "e", "r", "r", "o", "r">>

TokenText ==
    <<"a", "u", "t", "h", " ", "t", "o", "k", "e", "n", " ", "n", "o", "t", " ", "p", "r", "e", "s", "e", "n", "t">>

\* The fixed leading phrase of each of the eight variants.
Phrase(v) ==
    CASE v = "Unknown" -> UnknownText
      [] v = "Token"   -> TokenText
      [] OTHER         -> Leading(v)

IsPrefix(p, t) == Len(p) <= Len(t) /\ SubSeq(t, 1, Len(p)) = p

----------------------------------------------------------------------------
(* C1 *)

\* C1: the message of a wrapping variant is exactly its literal leading text
\* followed by the formatted text of the cause, with nothing before or after.
C1_ExactTemplate ==
    \A s \in Sites :
        (Wrapped(s) /\ msg[s] # None) =>
            msg[s][1] = Leading(err[s][1].variant) \o CauseText(s)

\* Every wrapping variant is met: here a Websocket error whose cause has a
\* text of its own, formatted, while the other site holds a formatted
\* ConfigurationError.
C1_Witness ==
    /\ Holds("task", "Websocket") /\ msg["task"] # None
    /\ CauseText("task") = <<"x">>
    /\ Holds("main", "ConfigurationError") /\ msg["main"] # None
    /\ CauseText("main") = UnknownText

----------------------------------------------------------------------------
(* C2 *)

\* C2: an error built by automatic conversion has the variant that belongs
\* to the type of its cause, and is never Unknown or Token.
C2_FromSelectsVariant ==
    \A s \in Sites :
        (built[s] # None /\ built[s][1].how = "from") =>
            LET t == built[s][1].cause[1].type
                v == err[s][1].variant
            IN  /\ t = "config::ConfigError"    => v = "ConfigurationError"
                /\ t = "io::Error"              => v = "IO"
                /\ t = "serde_yaml::Error"      => v = "Yaml"
                /\ t = "hyper::Error"           => v = "Webserver"
                /\ t = "tokio::task::JoinError" => v = "TokioThread"
                /\ t = "tungstenite::Error"     => v = "Websocket"
                /\ v \notin {"Unknown", "Token"}
                /\ err[s][1].cause[1].type = t

\* A WebSocket error and a task-join error, each converted automatically.
C2_Witness ==
    /\ built["task"] # None /\ built["task"][1].how = "from"
    /\ built["task"][1].cause[1].type = "tungstenite::Error"
    /\ built["main"] # None /\ built["main"][1].how = "from"
    /\ built["main"][1].cause[1].type = "tokio::task::JoinError"

----------------------------------------------------------------------------
(* C3 *)

\* C3: after automatic conversion, the cause retrieved from the error has
\* the formatted text of the cause that was converted.
C3_RoundTrip ==
    \A s \in Sites :
        (built[s] # None /\ built[s][1].how = "from" /\ src[s] # None) =>
            /\ src[s][1] # None
            /\ CauseDisplay(src[s][1][1]) = CauseDisplay(built[s][1].cause[1])

\* A converted I/O error with a non-empty text, its cause retrieved.
C3_Witness ==
    /\ built["task"] # None /\ built["task"][1].how = "from"
    /\ Holds("task", "IO")
    /\ src["task"] # None
    /\ built["task"][1].cause[1].text = UnknownText

----------------------------------------------------------------------------
(* C4 *)

\* C4: two formatted errors of distinct variants never have the same
\* message, whatever their causes; the leading phrases of the eight variants
\* are pairwise distinct, and the leading phrase of one variant is never a
\* prefix of the message of an error of another variant.
C4_Discriminable ==
    /\ \A v, w \in Variants : v # w => Phrase(v) # Phrase(w)
    /\ \A s, t \in Sites :
        (/\ err[s] # None /\ err[t] # None
         /\ msg[s] # None /\ msg[t] # None
         /\ err[s][1].variant # err[t][1].variant) =>
            /\ msg[s] # msg[t]
            /\ ~IsPrefix(Phrase(err[s][1].variant), msg[t][1])

\* A Token error beside an I/O error whose cause reads like the message of
\* Unknown, and both formatted.
C4_Witness ==
    /\ Holds("task", "IO") /\ CauseText("task") = UnknownText
    /\ Holds("main", "Token")
    /\ msg["task"] # None /\ msg["main"] # None

----------------------------------------------------------------------------
(* C5 *)

\* C5 as stated: the message of each of the six wrapping variants is its
\* category phrase, a colon, a space, and the text of the cause.
C5_ColonShape ==
    \A s \in Sites :
        (Wrapped(s) /\ msg[s] # None) =>
            msg[s][1] = Category(err[s][1].variant) \o <<":", " ">> \o CauseText(s)

\* C5 amended: the message of IO, Yaml, Webserver and TokioThread is the
\* category phrase, a colon, a space, and the text of the cause; the message
\* of ConfigurationError and Websocket is the category phrase, one space and
\* the text of the cause, with no colon.
C5_ShapePerVariant ==
    \A s \in Sites :
        (Wrapped(s) /\ msg[s] # None) =>
            LET v == err[s][1].variant
            IN  IF v \in {"IO", "Yaml", "Webserver", "TokioThread"}
                THEN msg[s][1] = Category(v) \o <<":", " ">> \o CauseText(s)
                ELSE msg[s][1] = Category(v) \o <<" ">> \o CauseText(s)

\* One error of each shape, formatted: an I/O error and a ConfigurationError.
C5_Witness ==
    /\ Holds("task", "IO") /\ msg["task"] # None
    /\ Holds("main", "ConfigurationError") /\ msg["main"] # None
    /\ CauseText("main") = <<"x">>

----------------------------------------------------------------------------
(* C6 *)

\* C6: the message of Unknown is exactly "unknown client error", at every
\* site and for every construction.
C6_UnknownText ==
    \A s \in Sites :
        (Holds(s, "Unknown") /\ msg[s] # None) =>
            /\ msg[s][1] = UnknownText
            /\ err[s][1].cause = None

\* Unknown constructed at both sites, and both formatted.
C6_Witness ==
    \A s \in Sites : Holds(s, "Unknown") /\ msg[s] # None

----------------------------------------------------------------------------
(* C7 *)

\* C7: the message of Token is exactly "auth token not present", at every
\* site and for every construction.
C7_TokenText ==
    \A s \in Sites :
        (Holds(s, "Token") /\ msg[s] # None) =>
            /\ msg[s][1] = TokenText
            /\ err[s][1].cause = None

\* Token constructed at both sites, and both formatted.
C7_Witness ==
    \A s \in Sites : Holds(s, "Token") /\ msg[s] # None

----------------------------------------------------------------------------
(* C8 *)

\* C8: retrieving the cause of an error yields a cause exactly when the
\* variant is one of the six wrapping variants, and then it is the cause the
\* error was built from; for Unknown and Token it yields none.
C8_CauseAccess ==
    \A s \in Sites :
        (err[s] # None /\ src[s] # None) =>
            LET v == err[s][1].variant
            IN  /\ (src[s][1] # None) <=>
                     v \in {"ConfigurationError", "IO", "Yaml", "Webserver",
                            "TokioThread", "Websocket"}
                /\ v \in {"Unknown", "Token"} => src[s][1] = None
                /\ src[s][1] = built[s][1].cause

\* The cause of a Websocket error retrieved at one site, and that of a Token
\* error asked for at the other.
C8_Witness ==
    /\ Holds("task", "Websocket") /\ src["task"] # None
    /\ CauseText("task") = <<"x">>
    /\ Holds("main", "Token") /\ src["main"] # None

----------------------------------------------------------------------------
(* C9 *)

\* The error owned at site s is consumed by the step.
Consumed(s) == Drop(s) \/ (s = "main" /\ Handle)

\* C9: every error has one variant out of the eight, a cause exactly when the
\* variant wraps one, and until it is consumed every step leaves it as it is:
\* it stays where it is, or it arrives unchanged at the other site.
C9_OneVariantNeverChanged ==
    /\ [](\A s \in Sites : err[s] # None =>
            /\ Cardinality({v \in {"ConfigurationError", "IO", "Yaml", "Webserver",
                                   "Unknown", "TokioThread", "Token", "Websocket"} :
                               v = err[s][1].variant}) = 1
            /\ (err[s][1].cause # None) <=> (err[s][1].variant \in WrappingVariants)
            /\ err[s][1].variant = built[s][1].variant
            /\ err[s][1].cause = built[s][1].cause)
    /\ [][\A s \in Sites : err[s] # None =>
            \/ err'[s] = err[s]
            \/ Consumed(s)
            \/ \E t \in Sites \ {s} :
                   err[t] = None /\ err'[t] = err[s] /\ err'[s] = None]_vars

\* An error converted from a cause at the task, handed over to the main flow,
\* and formatted and inspected there.
C9_Witness ==
    /\ Holds("main", "TokioThread") /\ CauseText("main") = <<"x">>
    /\ msg["main"] # None
    /\ built["main"][1].how = "from" /\ built["main"][1].at = "task"
    /\ src["main"] # None

----------------------------------------------------------------------------
(* C10 *)

\* The message that belongs to an error: a function of its variant and of
\* the text of its cause.
MessageOf(e) ==
    Phrase(e.variant) \o (IF e.cause = None THEN <<>> ELSE e.cause[1].text)

\* An error is constructed at site s by the step.
Constructed(s) ==
    err[s] = None /\ err'[s] # None /\ built'[s] # None /\ built'[s][1].at = s

\* The step produces a message at site s that was not there before it.
Formatted(s) == msg'[s] # None /\ msg'[s] # msg[s]

\* C10: a step that constructs an error or formats one writes nothing and
\* does not end the process.  Constructing changes nothing but the site's
\* own pending cause and error, and the error holds the cause as it was.
\* Formatting changes nothing but the message produced, which is the one that
\* belongs to the variant and the text of the cause; so formatting an error
\* again never produces another message.
C10_NoSideEffects ==
    [][\A s \in Sites :
        /\ Constructed(s) =>
              /\ logged' = logged /\ exited' = exited
              /\ msg' = msg /\ src' = src
              /\ err'[s][1].cause = pend[s]
              /\ pend'[s] = None
              /\ \A t \in Sites \ {s} : err'[t] = err[t] /\ pend'[t] = pend[t]
        /\ Formatted(s) =>
              /\ logged' = logged /\ exited' = exited
              /\ err' = err /\ pend' = pend /\ src' = src /\ built' = built
              /\ \A t \in Sites \ {s} : msg'[t] = msg[t]
              /\ msg[s] = None
              /\ msg'[s][1] = MessageOf(err[s][1])
      ]_vars

\* Both sites hold a formatted error, one converted from a cause and one
\* constructed directly, and nothing was written and the process runs.
C10_Witness ==
    /\ Holds("task", "Yaml") /\ msg["task"] # None
    /\ Holds("main", "Unknown") /\ msg["main"] # None
    /\ src["task"] # None
    /\ logged = None /\ ~exited

====
